---- MODULE Spec2Model ----
(***************************************************************************)
(* CopyArrayVec<T, MAX> (src/src/lib.rs): a fixed-capacity vector of Copy  *)
(* elements kept in an inline block of MAX slots plus a length.            *)
(*                                                                         *)
(* The storage block is modelled slot by slot, stale and never-written     *)
(* slots included, so that what the block moves of remove and insert read  *)
(* and write is visible.  Each public method is an operator computing the  *)
(* method's outcome from the container it is called on, and an action      *)
(* applying it to the state.                                               *)
(***************************************************************************)
EXTENDS Integers, Sequences, FiniteSets, TLC

\* ------------------------------------------------------------- bounds
\* Capacity of the container under analysis (the const generic MAX).
MAX == 3
\* Element values are 1..MaxVal.
MaxVal == 2
\* Longest source sequence handed to extend.
MaxSrc == 2
\* Width of usize in the model (arithmetic on lengths and indices is
\* taken modulo 2^UsizeBits where the build does not check overflow).
UsizeBits == 8

\* ------------------------------------------------------------- values
\* Content of a slot that holds no initialised T: MaybeUninit::uninit().
\* Its content is indeterminate.
Uninit == 0
Vals == 1..MaxVal
Slot == Vals \cup {Uninit}
Slots == 0..(MAX - 1)
\* Indices handed to remove / insert / try_insert: every i <= len, and for
\* every len (len = MAX included) at least one i > len.
Indices == 0..(MAX + 1)
UsizeMod == 2 ^ UsizeBits
\* Source sequences handed to extend: the runs s+1, s+2, ... (cyclic in
\* Vals) of every length up to MaxSrc.
Sources ==
    {[k \in 1..n |-> ((s + k - 1) % MaxVal) + 1] : n \in 0..MaxSrc, s \in 0..(MaxVal - 1)}
\* Content a read beyond the end of the storage block can yield, for a
\* container of length l: only a move on a full container reads there.
Beyond(l) == IF l = MAX THEN Slot ELSE {Uninit}
\* The run s+1, s+2, ... (cyclic in Vals) of length n.
Run(s, n) == [k \in 1..n |-> ((s + k - 1) % MaxVal) + 1]
\* Source sequences handed to from_iter and encoded for deserialize: runs
\* of every length up to MAX + 2.
CtorSources == {Run(s, n) : n \in 0..(MAX + 2), s \in 0..(MaxVal - 1)}

VARIABLES
    buf,    \* the storage block: slot index -> content
    len,    \* number of live elements
    overflow_checks, \* build profile: are arithmetic overflow checks compiled in
    last,   \* the last call: method, arguments, outcome, block move performed
    pre,    \* the live sequence before the last call
    prev,   \* the method of the call before the last one when that was a
            \* successful push, insert, clear or serialize, else "none"
    pc      \* the statement a call of push or insert taken step by step is
            \* at; "idle" between calls

vars == <<buf, len, overflow_checks, last, pre, prev, pc>>

\* ------------------------------------------------------------- queries
capacity == MAX
capacity_remaining(l) == MAX - l
is_full(l) == capacity_remaining(l) = 0
is_empty(l) == l = 0
\* The live prefix as a sequence (Deref to [T] of length len).
deref(b, l) == [k \in 1..l |-> b[k - 1]]

\* ------------------------------------------------------------- helpers
NoMove == [src |-> 0, dst |-> 0, count |-> 0]
\* Outcome of a method: the container afterwards, how the call ended
\* ("ok", "err" = Err(..) returned, "panic", "ub" = undefined behaviour),
\* the value returned or handed back (<<>> for () and None), and the block
\* move it performed.
Outcome(b, l, status, ret, mv) ==
    [buf |-> b, len |-> l, status |-> status, ret |-> ret, mv |-> mv]
Panic(b, l) == Outcome(b, l, "panic", <<>>, NoMove)

\* std::ptr::copy(src, dst, count) on the storage block: a memmove of count
\* slots.  A source slot beyond the block has indeterminate content g.
ptr_copy(b, src, dst, count, g) ==
    [k \in Slots |->
        IF dst <= k /\ k < dst + count
        THEN LET s == src + (k - dst) IN IF s < MAX THEN b[s] ELSE g
        ELSE b[k]]

\* ------------------------------------------------------------- methods
\* Mutant of push: the capacity assert is off by one.
push_off_by_one(b, l, el) ==
    IF ~(l <= MAX)
    THEN Panic(b, l)
    ELSE Outcome([b EXCEPT ![l] = el], l + 1, "ok", <<>>, NoMove)

push(b, l, el) ==
    IF ~(l < MAX)
    THEN Panic(b, l)
    ELSE Outcome([b EXCEPT ![l] = el], l + 1, "ok", <<>>, NoMove)

\* Mutant of try_push: it gives up while one slot is still free.
try_push_late(b, l, el) ==
    IF capacity_remaining(l) > 1
    THEN push(b, l, el)
    ELSE Outcome(b, l, "err", <<el>>, NoMove)

try_push(b, l, el) ==
    IF capacity_remaining(l) > 0
    THEN push(b, l, el)
    ELSE Outcome(b, l, "err", <<el>>, NoMove)

\* Mutant of remove: the length is decremented before the index is checked.
remove_decrements_first(b, l, i, g) ==
    IF i >= l
    THEN Panic(b, IF l > 0 THEN l - 1 ELSE 0)
    ELSE LET v == b[i]
             count == l - i
         IN Outcome(ptr_copy(b, i + 1, i, count, g), l - 1, "ok", <<v>>,
                    [src |-> i + 1, dst |-> i, count |-> count])

\* Mutant of remove: the block move goes the wrong way (from i up to i + 1).
remove_shift_up(b, l, i, g) ==
    IF i >= l
    THEN Panic(b, l)
    ELSE LET v == b[i]
             count == l - i
         IN Outcome(ptr_copy(b, i, i + 1, count, g), l - 1, "ok", <<v>>,
                    [src |-> i, dst |-> i + 1, count |-> count])

\* remove(i): self[i] panics when i >= len; then len - i slots are moved
\* from i + 1 down to i.
remove(b, l, i, g) ==
    IF i >= l
    THEN Panic(b, l)
    ELSE LET v == b[i]
             count == l - i
         IN Outcome(ptr_copy(b, i + 1, i, count, g), l - 1, "ok", <<v>>,
                    [src |-> i + 1, dst |-> i, count |-> count])

\* Mutant of pop: it takes the element at the front.
pop_front(b, l, g) ==
    IF is_empty(l)
    THEN Outcome(b, l, "ok", <<>>, NoMove)
    ELSE remove(b, l, 0, g)

pop(b, l, g) ==
    IF is_empty(l)
    THEN Outcome(b, l, "ok", <<>>, NoMove)
    ELSE remove(b, l, l - 1, g)

\* Mutant of insert: the assert on is_full is missing.
insert_unasserted(b, l, i, value, oc) ==
    IF i = l
    THEN push(b, l, value)
    ELSE IF l < i /\ oc
    THEN Panic(b, l)
    ELSE LET count == (l - i) % UsizeMod
             mv == [src |-> i, dst |-> i + 1, count |-> count]
         IN IF i + 1 + count <= MAX
            THEN Outcome(ptr_copy(b, i, i + 1, count, Uninit), l + 1, "ok", <<>>, mv)
            ELSE Outcome([k \in Slots |-> Uninit], l, "ub", <<>>, mv)

\* insert(i, value): the assert on is_full, the i == len branch through
\* push, otherwise a move of len - i slots from i up to i + 1 and len += 1.
\* No comparison of i with len is made: for i > len the subtraction
\* self.len - i overflows.  A build with overflow checks panics there; a
\* build without them wraps and moves (len - i) mod 2^UsizeBits slots, far
\* beyond the block, which is undefined behaviour: the call does not
\* complete and the content of the block is indeterminate.
insert(b, l, i, value, oc) ==
    IF is_full(l)
    THEN Panic(b, l)
    ELSE IF i = l
    THEN push(b, l, value)
    ELSE IF l < i /\ oc
    THEN Panic(b, l)
    ELSE LET count == (l - i) % UsizeMod
             mv == [src |-> i, dst |-> i + 1, count |-> count]
         IN IF i + 1 + count <= MAX
            THEN Outcome(ptr_copy(b, i, i + 1, count, Uninit), l + 1, "ok", <<>>, mv)
            ELSE Outcome([k \in Slots |-> Uninit], l, "ub", <<>>, mv)

try_insert(b, l, i, value, oc) ==
    IF is_full(l)
    THEN Outcome(b, l, "err", <<value>>, NoMove)
    ELSE insert(b, l, i, value, oc)

\* Mutant of clear: the length is left as it is.
clear_keeps_len(b, l) == Outcome(b, l, "ok", <<>>, NoMove)

clear(b, l) == Outcome(b, 0, "ok", <<>>, NoMove)

\* Mutant of extend: an overflowing source is refused before anything is
\* pushed.
RECURSIVE extend_rollback(_, _, _)
extend_rollback(b, l, items) ==
    IF items = <<>>
    THEN Outcome(b, l, "ok", <<>>, NoMove)
    ELSE IF l + Len(items) > MAX
    THEN Panic(b, l)
    ELSE extend_rollback([b EXCEPT ![l] = Head(items)], l + 1, Tail(items))

\* extend(iter): push every item in order; a panicking push ends the call
\* with the items pushed so far in place.
RECURSIVE extend(_, _, _)
extend(b, l, items) ==
    IF items = <<>>
    THEN Outcome(b, l, "ok", <<>>, NoMove)
    ELSE LET r == push(b, l, Head(items))
         IN IF r.status = "panic" THEN r ELSE extend(r.buf, r.len, Tail(items))

\* ------------------------------------------------------------- views
\* Mutant of eq: the storage blocks and lengths are compared, as a derived
\* PartialEq would.
eq_raw(b1, l1, b2, l2) == b1 = b2 /\ l1 = l2

\* PartialEq::eq: the live slices are compared.
eq(b1, l1, b2, l2) == deref(b1, l1) = deref(b2, l2)

\* Hash::hash: the live slice is hashed; what the hasher is fed is the
\* length of the slice followed by its elements.
hash(b, l) == <<l>> \o deref(b, l)

\* Mutant of from_iter: items that do not fit are dropped.
from_iter_truncating(items) ==
    Outcome([k \in Slots |-> IF k < Len(items) THEN items[k + 1] ELSE Uninit],
            IF Len(items) < MAX THEN Len(items) ELSE MAX, "ok", <<>>, NoMove)

\* FromIterator::from_iter: a default container, then push of every item;
\* a panicking push unwinds and no container is returned.
RECURSIVE from_iter_loop(_, _, _)
from_iter_loop(b, l, items) ==
    IF items = <<>>
    THEN Outcome(b, l, "ok", <<>>, NoMove)
    ELSE LET r == push(b, l, Head(items))
         IN IF r.status = "panic" THEN r ELSE from_iter_loop(r.buf, r.len, Tail(items))

from_iter(items) == from_iter_loop([k \in Slots |-> Uninit], 0, items)

\* ------------------------------------------------------------- serde
\* The token stream of a sequence, as serde_test spells it: Seq with the
\* length, one token per element, SeqEnd.
Token(t, n) == [t |-> t, n |-> n]
Encode(s) ==
    <<Token("Seq", Len(s))>> \o [k \in 1..Len(s) |-> Token("Elem", s[k])]
        \o <<Token("SeqEnd", 0)>>
\* Mutant of serialize: the whole storage block is serialized.
serialize_block(b, l) == Encode([k \in 1..MAX |-> b[k - 1]])

\* Serialize::serialize: the live slice is serialized as a sequence.
serialize(b, l) == Encode(deref(b, l))

\* The elements SeqAccess::next_element yields for a token stream: those
\* between the Seq token and the first SeqEnd.
RECURSIVE next_elements(_)
next_elements(tokens) ==
    IF tokens = <<>> \/ Head(tokens).t # "Elem"
    THEN <<>>
    ELSE <<Head(tokens).n>> \o next_elements(Tail(tokens))

\* Visit::visit_seq: a default container, then try_push of every element;
\* the first element that does not fit ends the visit with
\* invalid_length(capacity + 1).  The outcome carries the container being
\* built, and in ret (on error) the reported length and the number of
\* elements taken from the input.
RECURSIVE visit_loop(_, _, _, _)
visit_loop(b, l, elems, taken) ==
    IF elems = <<>>
    THEN Outcome(b, l, "ok", <<>>, NoMove)
    ELSE LET r == try_push(b, l, Head(elems))
         IN IF r.status = "err"
            THEN Outcome(b, l, "err", <<capacity + 1, taken + 1>>, NoMove)
            ELSE visit_loop(r.buf, r.len, Tail(elems), taken + 1)

\* Mutant of visit_seq: elements that do not fit are dropped and the visit
\* succeeds.
visit_seq_truncating(elems) ==
    Outcome([k \in Slots |-> IF k < Len(elems) THEN elems[k + 1] ELSE Uninit],
            IF Len(elems) < MAX THEN Len(elems) ELSE MAX, "ok", <<>>, NoMove)

\* Mutant of visit_seq: the error reports the number of elements of the
\* input.
visit_seq_reports_input(elems) ==
    LET r == visit_loop([k \in Slots |-> Uninit], 0, elems, 0)
    IN IF r.status = "err"
       THEN Outcome(r.buf, r.len, "err", <<Len(elems), r.ret[2]>>, NoMove)
       ELSE r

visit_seq(elems) == visit_loop([k \in Slots |-> Uninit], 0, elems, 0)

\* Deserialize::deserialize: deserialize_seq hands the elements of the
\* sequence to visit_seq.
deserialize(tokens) ==
    IF tokens # <<>> /\ Head(tokens).t = "Seq"
    THEN visit_seq(next_elements(Tail(tokens)))
    ELSE Outcome([k \in Slots |-> Uninit], 0, "err", <<>>, NoMove)

Init ==
    /\ buf = [k \in Slots |-> Uninit]
    /\ len = 0
    /\ overflow_checks \in BOOLEAN
    /\ last = [op |-> "new", i |-> 0, v |-> Uninit, items |-> <<>>,
               status |-> "ok", ret |-> <<>>, mv |-> NoMove]
    /\ pre = <<>>
    /\ prev = "none"
    /\ pc = "idle"

\* A call of method op with arguments i, v, items ending in outcome r.
Call(op, i, v, items, r) ==
    /\ last.status # "ub"
    /\ buf' = r.buf
    /\ len' = r.len
    /\ last' = [op |-> op, i |-> i, v |-> v, items |-> items,
                status |-> r.status, ret |-> r.ret, mv |-> r.mv]
    /\ pre' = deref(buf, len)
    /\ prev' = IF last.status = "ok" /\ last.op \in {"push", "insert", "clear", "serialize"}
               THEN last.op ELSE "none"
    /\ UNCHANGED <<overflow_checks, pc>>

Push == \E el \in Vals : Call("push", 0, el, <<>>, push(buf, len, el))

TryPush == \E el \in Vals : Call("try_push", 0, el, <<>>, try_push(buf, len, el))

Pop == \E g \in Beyond(len) : Call("pop", 0, Uninit, <<>>, pop(buf, len, g))

Remove ==
    \E i \in Indices, g \in Beyond(len) :
        Call("remove", i, Uninit, <<>>, remove(buf, len, i, g))

Insert ==
    \E i \in Indices, value \in Vals :
        Call("insert", i, value, <<>>, insert(buf, len, i, value, overflow_checks))

TryInsert ==
    \E i \in Indices, value \in Vals :
        Call("try_insert", i, value, <<>>,
             try_insert(buf, len, i, value, overflow_checks))

Clear == Call("clear", 0, Uninit, <<>>, clear(buf, len))

Extend == \E items \in Sources : Call("extend", 0, Uninit, items, extend(buf, len, items))

Next ==
    \/ Push
    \/ TryPush
    \/ Pop
    \/ Remove
    \/ Insert
    \/ TryInsert
    \/ Clear
    \/ Extend

\* A constructor call: the container it returns replaces the one held; when
\* it panics or returns Err, no container is returned and the one held
\* stays.
Construct(op, items, r) ==
    Call(op, 0, Uninit, items,
         IF r.status = "ok" THEN r ELSE Outcome(buf, len, r.status, r.ret, NoMove))

FromIter == \E items \in CtorSources : Construct("from_iter", items, from_iter(items))

Serialize ==
    Call("serialize", 0, Uninit, <<>>, Outcome(buf, len, "ok", serialize(buf, len), NoMove))

\* Token streams handed to deserialize: the encodings of the constructor
\* sources, and what the last call produced when that was serialize.
DecodeInputs ==
    {Encode(s) : s \in CtorSources}
        \cup (IF last.op = "serialize" THEN {last.ret} ELSE {})

Deserialize == \E tokens \in DecodeInputs : Construct("deserialize", tokens, deserialize(tokens))

\* Containers with another history: collected from s1, cleared, extended
\* by s2.  Their slots beyond len hold what s1 left there.
Others ==
    {LET a == from_iter(s1) IN extend(a.buf, 0, s2) :
         s1 \in {s \in CtorSources : Len(s) \in {0, MAX}},
         s2 \in {s \in CtorSources : Len(s) <= MAX}}

\* The container is compared with one of another history: ret holds the
\* result of ==, whether the hashes agree, whether the encodings agree, and
\* whether the two storage blocks are identical slot by slot.
Compare ==
    \E o \in Others :
        Call("compare", 0, Uninit, deref(o.buf, o.len),
             Outcome(buf, len, "ok",
                     <<eq(buf, len, o.buf, o.len),
                       hash(buf, len) = hash(o.buf, o.len),
                       serialize(buf, len) = serialize(o.buf, o.len),
                       buf = o.buf>>,
                     NoMove))

NextSerde ==
    \/ Push
    \/ Pop
    \/ Clear
    \/ FromIter
    \/ Serialize
    \/ Deserialize

NextEq ==
    \/ Push
    \/ Pop
    \/ Clear
    \/ Compare

\* ---------------------------------------- push and insert, step by step
\* Entry of a call: the arguments are recorded and control is at statement
\* `at` of the method.
Begin(op, i, v, at) ==
    /\ pc = "idle"
    /\ last.status # "ub"
    /\ last' = [op |-> op, i |-> i, v |-> v, items |-> <<>>,
                status |-> "running", ret |-> <<>>, mv |-> NoMove]
    /\ pre' = deref(buf, len)
    /\ prev' = "none"
    /\ pc' = at
    /\ UNCHANGED <<buf, len, overflow_checks>>

\* The call ends with the given status.
End(status) ==
    /\ last' = [last EXCEPT !.status = status]
    /\ pc' = "idle"

PushCall == \E el \in Vals : Begin("push", 0, el, "push_assert")

\* push: assert!(self.len() < MAX)
PushAssert ==
    /\ pc = "push_assert"
    /\ IF len < MAX
       THEN pc' = "push_write" /\ UNCHANGED last
       ELSE End("panic")
    /\ UNCHANGED <<buf, len, overflow_checks, pre, prev>>

\* push: self.buf[next].write(el)
PushWrite ==
    /\ pc = "push_write"
    /\ buf' = [buf EXCEPT ![len] = last.v]
    /\ pc' = "push_len"
    /\ UNCHANGED <<len, overflow_checks, last, pre, prev>>

\* push: self.len += 1
PushLen ==
    /\ pc = "push_len"
    /\ len' = len + 1
    /\ End("ok")
    /\ UNCHANGED <<buf, overflow_checks, pre, prev>>

InsertCall ==
    \E i \in Indices, value \in Vals : Begin("insert", i, value, "insert_assert")

\* insert: assert!(!self.is_full()), then the branch on i == self.len()
\* into push or to the block move.
InsertAssert ==
    /\ pc = "insert_assert"
    /\ IF is_full(len)
       THEN End("panic")
       ELSE /\ pc' = IF last.i = len THEN "push_assert" ELSE "insert_move"
            /\ UNCHANGED last
    /\ UNCHANGED <<buf, len, overflow_checks, pre, prev>>

\* insert: ptr::copy(buf_p, buf_p.add(1), self.len - i).  For i > len the
\* subtraction panics in a build with overflow checks; without them the
\* wrapped count reaches beyond the block, which is undefined behaviour:
\* the call does not complete and the content of the block is
\* indeterminate.
InsertMove ==
    /\ pc = "insert_move"
    /\ IF len < last.i /\ overflow_checks
       THEN End("panic") /\ UNCHANGED buf
       ELSE LET count == (len - last.i) % UsizeMod
                mv == [src |-> last.i, dst |-> last.i + 1, count |-> count]
            IN IF last.i + 1 + count <= MAX
               THEN /\ buf' = ptr_copy(buf, last.i, last.i + 1, count, Uninit)
                    /\ last' = [last EXCEPT !.mv = mv]
                    /\ pc' = "insert_len"
               ELSE /\ buf' = [k \in Slots |-> Uninit]
                    /\ last' = [last EXCEPT !.status = "ub", !.mv = mv]
                    /\ pc' = "idle"
    /\ UNCHANGED <<len, overflow_checks, pre, prev>>

\* insert: self.len += 1
InsertLen ==
    /\ pc = "insert_len"
    /\ len' = len + 1
    /\ End("ok")
    /\ UNCHANGED <<buf, overflow_checks, pre, prev>>

\* pop and clear between the stepwise calls.
PopCall == pc = "idle" /\ Pop

ClearCall == pc = "idle" /\ Clear

NextSteps ==
    \/ PushCall
    \/ PushAssert
    \/ PushWrite
    \/ PushLen
    \/ InsertCall
    \/ InsertAssert
    \/ InsertMove
    \/ InsertLen
    \/ PopCall
    \/ ClearCall

\* The build with overflow checks (the profile tests and doctests run in).
InitChecked == Init /\ overflow_checks = TRUE

Spec == Init /\ [][Next]_vars

SpecChecked == InitChecked /\ [][Next]_vars

\* The container with its bulk constructor and its serialization pair, and
\* the container with its comparisons, in the build with overflow checks
\* (none of these depends on the build).
SpecSerde == InitChecked /\ [][NextSerde]_vars

SpecEq == InitChecked /\ [][NextEq]_vars

\* Every operation of the public surface, in the build with overflow checks
\* (the build in which the most calls fail by a panic).
NextAll == Next \/ FromIter \/ Deserialize

SpecAll == InitChecked /\ [][NextAll]_vars

\* push and insert taken statement by statement, in either build.
SpecSteps == Init /\ [][NextSteps]_vars

\* ------------------------------------------------------------- properties
\* The live sequence of the container.
Live == deref(buf, len)
\* s without its element at position k (1-based), order kept elsewhere.
DeleteAt(s, k) == SubSeq(s, 1, k - 1) \o SubSeq(s, k + 1, Len(s))
\* s with x put before position k (1-based); k = Len(s) + 1 appends.
InsertAt(s, k, x) == SubSeq(s, 1, k - 1) \o <<x>> \o SubSeq(s, k, Len(s))

\* C1: in every reachable state with live sequence s (a full container
\* included) and for every i < len, remove(i) succeeds, returns s[i], leaves
\* the live sequence equal to s with index i deleted and the other elements
\* in their order, and decreases len by exactly 1.
C1_RemoveDeletesIndex ==
    [][(last'.op = "remove" /\ last'.i < len) =>
          /\ last'.status = "ok"
          /\ last'.ret = <<Live[last'.i + 1]>>
          /\ Live' = DeleteAt(Live, last'.i + 1)
          /\ len' = len - 1]_vars

\* C1 witness: remove(0) has succeeded on a full container, moving every
\* other element down.
C1_Witness ==
    /\ last.op = "remove"
    /\ last.status = "ok"
    /\ last.i = 0
    /\ Len(pre) = MAX
    /\ Live = Tail(pre)
    /\ \E j \in 1..len, k \in 1..len : Live[j] # Live[k]

\* C2: on a non-full container with live sequence s and for every i <= len,
\* insert(i, v) leaves the live sequence s[0..i) ++ <<v>> ++ s[i..len) and
\* increases len by exactly 1.
C2_InsertPlacesValue ==
    [][(last'.op = "insert" /\ len < MAX /\ last'.i <= len) =>
          /\ last'.status = "ok"
          /\ Live' = InsertAt(Live, last'.i + 1, last'.v)
          /\ len' = len + 1]_vars

\* C3: on a non-full container and for every i <= len, insert(i, v)
\* immediately followed by remove(i) returns v and leaves the live sequence
\* and len as they were before the insert.
C3_InsertThenRemove ==
    [][(/\ last.op = "insert"
        /\ Len(pre) < MAX
        /\ last.i <= Len(pre)
        /\ last'.op = "remove"
        /\ last'.i = last.i) =>
          /\ last'.status = "ok"
          /\ last'.ret = <<last.v>>
          /\ Live' = pre
          /\ len' = Len(pre)]_vars

\* C4: a successful push(v) immediately followed by pop() returns Some(v)
\* and restores len and the live sequence; every pop on a non-empty
\* container returns the last live element and removes exactly it (so
\* successive pops return the elements last-in first-out); pop on an empty
\* container returns None and changes nothing.
C4_PushPopLifo ==
    [][last'.op = "pop" =>
          /\ last'.status = "ok"
          /\ (last.op = "push" /\ last.status = "ok") =>
                /\ last'.ret = <<last.v>>
                /\ Live' = pre
                /\ len' = Len(pre)
          /\ len > 0 =>
                /\ last'.ret = <<Live[len]>>
                /\ Live' = SubSeq(Live, 1, len - 1)
                /\ len' = len - 1
          /\ len = 0 =>
                /\ last'.ret = <<>>
                /\ buf' = buf
                /\ len' = len]_vars

\* C4 witness: a pop right after a push that filled the container has
\* returned the pushed value.
C4_Witness ==
    /\ last.op = "pop"
    /\ prev = "push"
    /\ last.ret # <<>>
    /\ Len(pre) = MAX
    /\ len = MAX - 1

\* C5: in every state reached by any sequence of calls, failed ones
\* included, 0 <= len <= MAX, capacity_remaining() + len() == capacity()
\* == MAX, and is_full() holds exactly when len == MAX.
C5_CapacityInvariant ==
    /\ len \in 0..MAX
    /\ capacity_remaining(len) + len = capacity
    /\ capacity = MAX
    /\ is_full(len) <=> (len = MAX)

\* C5 witness: a call has just failed on a full container.
C5_Witness ==
    /\ last.status \in {"panic", "err"}
    /\ len = MAX
    /\ is_full(len)
    /\ capacity_remaining(len) = 0

\* C6: push succeeds exactly while len < MAX, adding one element each
\* time (so exactly MAX pushes succeed from empty); on a full container
\* push(v) and insert(i, v), for every i, panic and leave len and the live
\* sequence as they were.
C6_FullIsFatal ==
    [][/\ last'.op = "push" =>
             /\ (last'.status = "ok") <=> (len < MAX)
             /\ last'.status = "ok" => len' = len + 1
       /\ (last'.op \in {"push", "insert"} /\ len = MAX) =>
             /\ last'.status = "panic"
             /\ Live' = Live
             /\ len' = len]_vars

\* C6 witness: an insert at an index inside the live range has panicked on
\* a full container.
C6_Witness ==
    /\ last.op = "insert"
    /\ last.status = "panic"
    /\ last.i < len
    /\ len = MAX
    /\ Live = pre

\* C7: on a full container try_push(v) and try_insert(i, v) with i <= len
\* return Err(v) and change neither len nor the live sequence; on a
\* non-full container they return Ok and leave the state push(v) and
\* insert(i, v) leave.
C7_TryVariants ==
    [][/\ (last'.op = "try_push" /\ len = MAX) \/
          (last'.op = "try_insert" /\ len = MAX /\ last'.i <= len) =>
             /\ last'.status = "err"
             /\ last'.ret = <<last'.v>>
             /\ Live' = Live
             /\ len' = len
       /\ (last'.op = "try_push" /\ len < MAX) =>
             /\ last'.status = "ok"
             /\ buf' = push(buf, len, last'.v).buf
             /\ len' = push(buf, len, last'.v).len
       /\ (last'.op = "try_insert" /\ len < MAX /\ last'.i <= len) =>
             /\ last'.status = "ok"
             /\ buf' = insert(buf, len, last'.i, last'.v, overflow_checks).buf
             /\ len' = insert(buf, len, last'.i, last'.v, overflow_checks).len]_vars

\* C7 witness: try_insert at an index inside the live range has handed its
\* value back on a full container.
C7_Witness ==
    /\ last.op = "try_insert"
    /\ last.status = "err"
    /\ last.i < len
    /\ last.ret = <<last.v>>
    /\ len = MAX
    /\ Live = pre

\* C8: remove(i) with i >= len, and insert(i, v) with i > len on a non-full
\* container, panic and leave len and the live sequence as they were.
C8_OutOfRangeIsFatal ==
    [][(\/ last'.op = "remove" /\ last'.i >= len
        \/ last'.op = "insert" /\ len < MAX /\ last'.i > len) =>
          /\ last'.status = "panic"
          /\ Live' = Live
          /\ len' = len]_vars

\* C9: try_insert(i, v) with i > len panics in every state, full or not:
\* it returns neither Err nor Ok for an out-of-range index.
C9_TryInsertOutOfRangeIsFatal ==
    [][(last'.op = "try_insert" /\ last'.i > len) =>
          last'.status = "panic"]_vars

\* C10: the block move of a completed call reads no slot at or beyond
\* len: that of remove(i) and of pop reads exactly the len - i - 1 slots
\* i + 1 .. len - 1, that of insert(i, v) exactly the slots i .. len - 1.
C10_MovesReadLiveSlotsOnly ==
    [][(last'.status = "ok" /\ last'.mv.count > 0) =>
          /\ last'.mv.src + last'.mv.count <= len
          /\ last'.op \in {"remove", "pop"} =>
                /\ last'.mv.src = last'.mv.dst + 1
                /\ last'.mv.count = len - last'.mv.dst - 1
          /\ last'.op \in {"insert", "try_insert"} =>
                /\ last'.mv.src = last'.i
                /\ last'.mv.count = len - last'.i]_vars
\* C14: extend on a container of length n with a source of k elements: if
\* n + k <= MAX it succeeds and the live sequence becomes the old one
\* followed by the source in order; if n + k > MAX it panics at the element
\* that would overflow, the container then holding the old sequence
\* followed by the first MAX - n source elements.
C14_ExtendNoRollback ==
    [][last'.op = "extend" =>
          /\ (len + Len(last'.items) <= MAX) =>
                /\ last'.status = "ok"
                /\ Live' = Live \o last'.items
                /\ len' = len + Len(last'.items)
          /\ (len + Len(last'.items) > MAX) =>
                /\ last'.status = "panic"
                /\ Live' = Live \o SubSeq(last'.items, 1, MAX - len)
                /\ len' = MAX]_vars

\* C14 witness: an extend by two elements has panicked on its second
\* element, the first one staying in the container.
C14_Witness ==
    /\ last.op = "extend"
    /\ last.status = "panic"
    /\ Len(last.items) = 2
    /\ Len(pre) = MAX - 1
    /\ len = MAX
    /\ Live = pre \o <<last.items[1]>>

\* C20: every slot index read or written by a completed push, pop,
\* remove(i) with i < len or insert(i, v) with i <= len lies in [0, MAX),
\* a full container included: push writes slot len < MAX, and both ranges
\* of a block move end at or before MAX.
C20_AccessesInsideBlock ==
    [][(last'.status = "ok" /\ last'.op \in {"push", "pop", "remove", "insert"}) =>
          /\ last'.op = "push" => len < MAX
          /\ last'.mv.count > 0 =>
                /\ last'.mv.src + last'.mv.count <= MAX
                /\ last'.mv.dst + last'.mv.count <= MAX]_vars
\* A freshly created container into which the sequence s was pushed: no
\* slot beyond the live range was ever written.
Fresh(s) == [k \in Slots |-> IF k < Len(s) THEN s[k + 1] ELSE Uninit]
\* The outcome of the mutating method op on container (b, l).
Apply(op, b, l, i, v, items, oc, g) ==
    CASE op = "push" -> push(b, l, v)
      [] op = "try_push" -> try_push(b, l, v)
      [] op = "pop" -> pop(b, l, g)
      [] op = "remove" -> remove(b, l, i, g)
      [] op = "insert" -> insert(b, l, i, v, oc)
      [] op = "try_insert" -> try_insert(b, l, i, v, oc)
      [] op = "clear" -> clear(b, l)
      [] op = "extend" -> extend(b, l, items)
Mutators ==
    {"push", "try_push", "pop", "remove", "insert", "try_insert", "clear", "extend"}

\* C16: clear() succeeds and leaves len = 0, an empty live sequence and
\* capacity_remaining() = MAX; a push(v) right after it gives the live
\* sequence <<v>>; and every call, on a cleared container as on any other,
\* ends, returns and leaves the live sequence exactly as the same call does
\* on a fresh container holding the same live sequence: no formerly live
\* value in the slots beyond len is observable.
C16_ClearIsFresh ==
    /\ last.op = "clear" =>
          /\ last.status = "ok"
          /\ len = 0
          /\ Live = <<>>
          /\ capacity_remaining(len) = MAX
    /\ (prev = "clear" /\ last.op = "push") => Live = <<last.v>>
    /\ last.op \in Mutators =>
          \A g \in Slot :
              LET r == Apply(last.op, Fresh(pre), Len(pre), last.i, last.v,
                             last.items, overflow_checks, g)
              IN /\ r.status = last.status
                 /\ r.ret = last.ret
                 /\ r.len = len
                 /\ deref(r.buf, r.len) = Live

\* C16 witness: a push right after a clear of a full container has given
\* a one-element live sequence, the slots beyond it still holding the old
\* values.
C16_Witness ==
    /\ last.op = "push"
    /\ prev = "clear"
    /\ pre = <<>>
    /\ Live = <<last.v>>
    /\ \A k \in 1..(MAX - 1) : buf[k] # Uninit
    /\ buf[1] # last.v

\* C17 as stated: a call that fails (panics or returns an error) leaves len and the live sequence
\* exactly as they were before the call.
C17_AllOrNothing ==
    last.status \in {"panic", "err"} => (Live = pre /\ len = Len(pre))

\* C17 amended: a call that panics or returns an error leaves len and the
\* live sequence exactly as they were, except extend, whose panic leaves
\* the source elements pushed before the overflowing one in the container.
C17_AllOrNothingButExtend ==
    last.status \in {"panic", "err"} =>
       IF last.op = "extend"
       THEN /\ Live = pre \o SubSeq(last.items, 1, MAX - Len(pre))
            /\ len = MAX
       ELSE /\ Live = pre
            /\ len = Len(pre)

\* C17 witness: an insert at an index beyond len has panicked on a
\* non-empty, non-full container and left it as it was.
C17_Witness ==
    /\ last.op = "insert"
    /\ last.status = "panic"
    /\ last.i > len
    /\ len \in 1..(MAX - 1)
    /\ Live = pre
\* The elements a well-formed token stream encodes.
Payload(tokens) == [k \in 1..(Len(tokens) - 2) |-> tokens[k + 1].n]

\* C11: decoding an input of n elements succeeds exactly when n <= MAX and
\* then yields a container with len = n whose live sequence is the input in
\* order; when n > MAX it fails with a length error and yields no container
\* (the one held stays as it was).
C11_DecodeWithinCapacity ==
    [][last'.op = "deserialize" =>
          /\ (last'.status = "ok") <=> (Len(Payload(last'.items)) <= MAX)
          /\ last'.status = "ok" =>
                /\ len' = Len(Payload(last'.items))
                /\ Live' = Payload(last'.items)
          /\ last'.status # "ok" =>
                /\ last'.status = "err"
                /\ last'.ret # <<>>
                /\ buf' = buf
                /\ len' = len]_vars

\* C11 witness: an input of MAX elements, not all equal, has been decoded
\* into a full container.
C11_Witness ==
    /\ last.op = "deserialize"
    /\ last.status = "ok"
    /\ Len(Payload(last.items)) = MAX
    /\ len = MAX
    /\ Live = Payload(last.items)
    /\ Live[1] # Live[2]

\* C12: the encoding of a container is exactly its live elements in index
\* order between Seq(len) and SeqEnd, with no capacity and nothing of the
\* slots beyond len; and decoding what serialize has just produced succeeds
\* and yields a container equal to the encoded one.
C12_EncodeDecodeRoundTrip ==
    [][/\ last'.op = "serialize" =>
             /\ last'.status = "ok"
             /\ Len(last'.ret) = len + 2
             /\ last'.ret[1] = Token("Seq", len)
             /\ \A k \in 1..len : last'.ret[k + 1] = Token("Elem", Live[k])
             /\ last'.ret[len + 2] = Token("SeqEnd", 0)
             /\ buf' = buf /\ len' = len
       /\ (last.op = "serialize" /\ last'.op = "deserialize" /\ last'.items = last.ret) =>
             /\ last'.status = "ok"
             /\ Live' = Live
             /\ eq(buf', len', buf, len)]_vars

\* C12 witness: a partly filled container whose first two elements are
\* equal was encoded and the encoding decoded: the decoded container has the
\* same live sequence and untouched slots beyond it.
C12_Witness ==
    /\ last.op = "deserialize"
    /\ prev = "serialize"
    /\ last.status = "ok"
    /\ last.items = Encode(pre)
    /\ Live = pre
    /\ len \in 2..(MAX - 1)
    /\ Live[1] = Live[2]
    /\ buf = Fresh(Live)

\* C13: a container and one of another history with the same live sequence
\* are equal, hash identically and encode identically, whatever their slots
\* beyond len hold; with different live sequences they are not equal.
C13_IdentityIsLiveSequence ==
    last.op = "compare" =>
       /\ (last.items = Live) => (last.ret[1] /\ last.ret[2] /\ last.ret[3])
       /\ (last.items # Live) => ~last.ret[1]

\* C13 witness: two containers with the same non-empty live sequence and
\* different storage blocks have been found equal, with equal hashes and
\* encodings.
C13_Witness ==
    /\ last.op = "compare"
    /\ last.items = Live
    /\ len \in 1..(MAX - 1)
    /\ last.ret = <<TRUE, TRUE, TRUE, FALSE>>

\* C15: bulk construction from a source of n elements yields, for every
\* n <= MAX, a container with len = n whose live sequence is the source in
\* order; for n > MAX it panics and returns no container, truncated or
\* other (the one held stays as it was).
C15_FromIterWithinCapacity ==
    [][last'.op = "from_iter" =>
          /\ (Len(last'.items) <= MAX) =>
                /\ last'.status = "ok"
                /\ len' = Len(last'.items)
                /\ Live' = last'.items
          /\ (Len(last'.items) > MAX) =>
                /\ last'.status = "panic"
                /\ buf' = buf
                /\ len' = len]_vars

\* C15 witness: a source of exactly MAX elements has been collected into a
\* full container.
C15_Witness ==
    /\ last.op = "from_iter"
    /\ last.status = "ok"
    /\ Len(last.items) = MAX
    /\ len = MAX
    /\ Live = last.items
    /\ Live[1] # Live[2]

\* C19: when the input holds more than MAX elements, decoding stops at
\* element MAX + 1, the first that does not fit, and reports an invalid
\* length of MAX + 1, however many elements follow.
C19_DecodeErrorLength ==
    (last.op = "deserialize" /\ Len(Payload(last.items)) > MAX) =>
       /\ last.status = "err"
       /\ last.ret = <<MAX + 1, MAX + 1>>

\* C19 witness: an input of MAX + 2 elements has been refused.
C19_Witness ==
    /\ last.op = "deserialize"
    /\ last.status = "err"
    /\ Len(Payload(last.items)) = MAX + 2
    /\ last.ret[1] = MAX + 1
C18_WriteBeforeLen == [][len' = len + 1 => buf[len] # Uninit]_vars
====
